---- MODULE Spec2Model ----
(***************************************************************************)
(* A model of the cross-process PI mutex of robust_shared_mutex: the futex *)
(* word, the per-thread robust list, the kernel side of FUTEX_LOCK_PI /    *)
(* FUTEX_UNLOCK_PI and of thread exit, and the SharedMutex wrapper         *)
(* (lock, try_lock, grab, guard drop, attach).                              *)
(***************************************************************************)
EXTENDS Integers, Sequences, FiniteSets, TLC

\* ------------------------------------------------------------------ bounds
NumThreads == 3
MaxOps == 5
MaxDeaths == 1
MaxAttachOps == 3
MaxTimedOps == 5
MaxCvOps == 5
MaxWaiters == 2
MaxForkOps == 5
MaxPredOps == 4
MaxWrapOps == 4
ReleaseThreads == 2
MaxReleaseOps == 3
CounterThreads == 2
Iterations == 2

Threads == 1..NumThreads

\* ------------------------------------------------------------ the futex word
\* The 32-bit word, kept as its three bit fields: the tid bits (FUTEX_TID_MASK),
\* the FUTEX_WAITERS bit and the FUTEX_OWNER_DIED bit.
Word(t, w, d) == [tid |-> t, waiters |-> w, died |-> d]

\* A u32 that is a bare tid (or 0): what user code passes to compare_exchange.
Bare(t) == Word(t, FALSE, FALSE)

\* v & FUTEX_OWNER_DIED != 0
FUTEX_OWNER_DIED(v) == v.died

\* v & FUTEX_TID_MASK
FUTEX_TID_MASK(v) == v.tid

\* v & !FUTEX_OWNER_DIED
ClearOwnerDied(v) == [v EXCEPT !.died = FALSE]

\* ------------------------------------------------------- the generation word
\* AosCondition is an AtomicU32. A u32 is kept as its two 16-bit halves
\* <<high, low>>, so that arithmetic modulo 2^32 is exact.
Half == 65536

\* The u32 with value n, for n < 2^31.
U32Of(n) == <<n \div Half, n % Half>>

\* u32::MAX
U32_MAX == <<Half - 1, Half - 1>>

\* g.wrapping_add(1), which is what AtomicU32::fetch_add(1) stores.
wrapping_add1(g) ==
    IF g[2] = Half - 1 THEN <<(g[1] + 1) % Half, 0>> ELSE <<g[1], g[2] + 1>>

\* ------------------------------------------------------------------ addresses
\* Pointers stored in robust-list links.
Null == <<"null", 0>>
Node == <<"node", 0>>
\* The stack slot in which ensure_registered built the head (dead after return).
StackSlot(t) == <<"stack", t>>

\* The OnceCell before get_or_init has run.
Uninit == <<"uninit", 0>>

\* The address of the head inside the thread-local cell (`cell.get().unwrap()`),
\* where robust_add and robust_remove start.
HeadCell(t) == <<"head", t>>

\* What a read of the dead stack slot `a` can yield: its old content (the sentinel,
\* `a` itself), or whatever later calls left there (a null, the mutex node's address
\* held by a `next_ptr` local).
IndeterminateRead(a) == {a, Null, Node}

VARIABLES
    futex,        \* AosMutex.futex
    nnext,        \* AosMutex.next, the mutex's robust-list link
    init,         \* SharedMutexInner.init
    data,         \* SharedMutexInner.data
    kwaiters,     \* kernel: threads queued on the PI futex inside lock_pi
    MY_TID,       \* thread-local cached tid (0: not queried yet)
    ROBUST,       \* thread-local head: its list.next
    robust_reg,   \* kernel: the head address given to set_robust_list
    pc,           \* each thread's position
    op,           \* the call each thread is in (or completed last)
    ret,          \* what the thread's last completed call returned
    guards,       \* live SharedGuards per thread, by how they were returned
    owner_died,   \* try_new_inner's local
    rd,           \* the value read by `*guard += 1`
    iter,         \* increments each thread has completed
    nops,         \* calls started so far
    deaths,       \* thread exits so far
    nthreads,     \* the counter test: how many threads run the loop
    niters,       \* the counter test: iterations per thread
    abandoned,    \* history: an owner died and nobody has acquired since
    cv,           \* PiCondvar: the generation word
    cvq,          \* kernel: threads suspended on the condvar word
    start,        \* wait_inner's snapshot of the generation
    newgen,       \* wake's new_gen
    acqDied,      \* history: the thread's current/last call met an abandoned mutex
                  \* (it acquired it, or lock_pi refused it)
    forkedFrom    \* the thread whose fork() made this thread's process (0: none)

kernelVars == <<futex, kwaiters>>
memVars == <<nnext, init, data>>
tlsVars == <<MY_TID, ROBUST, robust_reg>>
callVars == <<op, ret, guards>>
localVars == <<owner_died, rd, iter>>
boundVars == <<nops, deaths>>
testVars == <<nthreads, niters>>
cvVars == <<cv, cvq, start, newgen>>
histVars == <<abandoned, acqDied>>
forkVars == <<forkedFrom>>

vars == <<kernelVars, memVars, tlsVars, callVars, localVars, boundVars, testVars, cvVars,
          histVars, forkVars, pc>>

\* SharedGuards by how they were returned (ok, err, grab) and PiMutexGuards (pi).
NoGuards == [ok |-> 0, err |-> 0, grab |-> 0, pi |-> 0]

\* The region as the allocator hands it out (zeroed), before any thread's first call.
FreshMutex ==
    /\ futex = Bare(0)
    /\ nnext = Null
    /\ kwaiters = {}
    /\ MY_TID = [t \in Threads |-> 0]
    /\ ROBUST = [t \in Threads |-> Uninit]
    /\ robust_reg = [t \in Threads |-> Null]
    /\ pc = [t \in Threads |-> "idle"]
    /\ op = [t \in Threads |-> "none"]
    /\ ret = [t \in Threads |-> "none"]
    /\ guards = [t \in Threads |-> NoGuards]
    /\ owner_died = [t \in Threads |-> FALSE]
    /\ rd = [t \in Threads |-> 0]
    /\ iter = [t \in Threads |-> 0]
    /\ nops = 0
    /\ deaths = 0
    /\ abandoned = FALSE
    /\ acqDied = [t \in Threads |-> FALSE]
    /\ cvq = {}
    /\ start = [t \in Threads |-> U32Of(0)]
    /\ newgen = [t \in Threads |-> U32Of(0)]
    /\ forkedFrom = [t \in Threads |-> 0]

\* PiCondvar::new(): the generation starts at 0.
Fresh ==
    /\ FreshMutex
    /\ cv = U32Of(0)

Init ==
    /\ Fresh
    /\ init = FALSE
    /\ data = 0
    /\ nthreads = 0
    /\ niters = 0

\* --------------------------------------------------------------- futex.rs
\* ensure_registered: the head is built in a local, its sentinel and the address
\* given to set_robust_list both point at that local, and the head is then moved
\* into the thread-local cell.
ensure_registered(t) ==
    IF ROBUST[t] = Uninit
    THEN /\ ROBUST' = [ROBUST EXCEPT ![t] = StackSlot(t)]
         /\ robust_reg' = [robust_reg EXCEPT ![t] = StackSlot(t)]
    ELSE UNCHANGED <<ROBUST, robust_reg>>

\* tid(): cached after the first call, which also registers the robust list.
tid(t) ==
    IF MY_TID[t] # 0
    THEN UNCHANGED tlsVars
    ELSE /\ MY_TID' = [MY_TID EXCEPT ![t] = t]
         /\ ensure_registered(t)

\* robust_add: node.next = head.next; head.next = node.
robust_add(t) ==
    /\ nnext' = ROBUST[t]
    /\ ROBUST' = [ROBUST EXCEPT ![t] = Node]

\* robust_remove walks from the head cell. With one mutex the first link decides:
\* the node (spliced out), null (loop ends), or a dead stack slot, which the loop
\* dereferences: it may read a terminator and end, never terminate, or fault.
RobustRemoveOutcomes(first) ==
    IF first = Node THEN {"unlinked"}
    ELSE IF first = Null THEN {"absent"}
    ELSE {"absent", "hang", "crash"}

\* The head's next after robust_remove returned with outcome o.
RobustRemoved(t, o) == IF o = "unlinked" THEN nnext ELSE ROBUST[t]

\* --------------------------------------------------------------- the kernel
\* futex_lock_pi_atomic on word v for caller `me`.
LockPiOutcome(v, me) ==
    IF FUTEX_TID_MASK(v) = me THEN "EDEADLK"
    ELSE IF kwaiters # {} THEN "queue"
    ELSE IF FUTEX_TID_MASK(v) = 0 THEN "acquire"
    ELSE IF pc[FUTEX_TID_MASK(v)] = "dead" THEN "ESRCH"
    ELSE "queue"

\* The word lock_pi leaves: a take-over keeps OWNER_DIED; otherwise WAITERS is set
\* before the owner is looked up.
LockPiWord(v, me) ==
    CASE LockPiOutcome(v, me) = "EDEADLK" -> v
      [] LockPiOutcome(v, me) = "acquire" -> Word(me, FALSE, v.died)
      [] OTHER -> [v EXCEPT !.waiters = TRUE]

\* Where a waiter continues once the kernel has made it the owner.
Woken(w) ==
    IF op[w] = "try_lock" THEN "try_ok"
    ELSE IF op[w] \in {"wait", "wait_timeout"} THEN "cw_post"
    ELSE "lock_post"

\* wake_futex_pi: the word handed to the next owner.
HandoffWord(w) == Word(w, TRUE, FALSE)

\* futex_unlock_pi by t, then pc[t] := next. EPERM when t is not the owner.
unlock_pi(t, next) ==
    IF FUTEX_TID_MASK(futex) # t
    THEN /\ UNCHANGED kernelVars
         /\ pc' = [pc EXCEPT ![t] = next]
    ELSE IF kwaiters # {}
    THEN \E w \in kwaiters :
            /\ futex' = HandoffWord(w)
            /\ kwaiters' = kwaiters \ {w}
            /\ pc' = [pc EXCEPT ![t] = next, ![w] = Woken(w)]
    ELSE /\ futex' = Bare(0)
         /\ UNCHANGED kwaiters
         /\ pc' = [pc EXCEPT ![t] = next]

\* What exit_robust_list finds first: nothing when the thread has no registered
\* head, else what it reads at the registered address, a dead stack slot.
ExitWalkReads(t) ==
    IF robust_reg[t] = Null THEN {Null} ELSE IndeterminateRead(robust_reg[t])

\* handle_futex_death on the node, when the walk reaches it.
DeathWord(v) == Word(0, v.waiters, TRUE)

\* Thread exit. exit_robust_list starts at the registered address, a dead stack
\* slot, and reads `seen` there; exit_pi_state_list then hands a PI futex the
\* thread owns to a queued waiter, with OWNER_DIED set.
ThreadExit(t, seen) ==
    LET holds == FUTEX_TID_MASK(futex) = t
    IN  /\ guards' = [guards EXCEPT ![t] = NoGuards]
        /\ deaths' = deaths + 1
        /\ IF holds /\ kwaiters # {}
           THEN \E w \in kwaiters :
                   /\ futex' = Word(w, TRUE, TRUE)
                   /\ kwaiters' = kwaiters \ {w}
                   /\ pc' = [pc EXCEPT ![t] = "dead", ![w] = Woken(w)]
                   /\ abandoned' = FALSE
                   /\ acqDied' = [acqDied EXCEPT ![w] = TRUE]
           ELSE /\ futex' = IF holds /\ seen = Node THEN DeathWord(futex) ELSE futex
                /\ UNCHANGED kwaiters
                /\ pc' = [pc EXCEPT ![t] = "dead"]
                /\ abandoned' = (abandoned \/ holds)
                /\ UNCHANGED acqDied

\* ------------------------------------------------------------- operations
\* A call starts: the thread leaves "idle" for the call's first step. Every entry
\* point reads tid() first. Threads are numbered in the order of their first call.
Begin(t, o, first) ==
    /\ pc[t] = "idle"
    /\ \A u \in Threads : u < t => MY_TID[u] # 0
    /\ pc' = [pc EXCEPT ![t] = first]
    /\ op' = [op EXCEPT ![t] = o]
    /\ nops' = nops + 1
    /\ acqDied' = [acqDied EXCEPT ![t] = FALSE]
    /\ tid(t)
    /\ UNCHANGED <<kernelVars, memVars, ret, guards, localVars, deaths, testVars, forkVars, cvVars,
                   abandoned>>

\* A call returns r to its caller, with a SharedGuard of kind g ("none": no guard).
Return(t, r, g) ==
    /\ pc' = [pc EXCEPT ![t] = "idle"]
    /\ ret' = [ret EXCEPT ![t] = r]
    /\ guards' = IF g = "none" THEN guards ELSE [guards EXCEPT ![t][g] = @ + 1]

\* SharedMutex::new and try_new both run try_new_inner; new passes
\* recover_from_poison = true.
IsAttach(t) == op[t] \in {"new", "try_new"}

recover_from_poison(t) == op[t] = "new"

\* What the caller of lock_inner does with its result.
\*   SharedMutexInner::lock: Ok(()) -> Ok(guard), Err(_) -> Err(guard).
\*   SharedMutexInner::grab: `let _ = self.futex.lock()` drops the PiMutexGuard of an
\*     Ok at once (unlock_pi), then a SharedGuard is returned either way.
\*   try_new_inner: `futex.lock().is_err()`; the temporary Result, and the
\*     PiMutexGuard in an Ok, is dropped at the end of that statement.
\*   PiMutex::lock, lock_timeout: `.map(|_| PiMutexGuard(self))`.
LockInnerDone(t, ok) ==
    CASE op[t] = "lock" ->
            /\ Return(t, IF ok THEN "Ok" ELSE "Err", IF ok THEN "ok" ELSE "err")
            /\ UNCHANGED owner_died
      [] op[t] = "grab" ->
            /\ IF ok
               THEN pc' = [pc EXCEPT ![t] = "pig_drop"] /\ UNCHANGED <<ret, guards>>
               ELSE Return(t, "Guard", "grab")
            /\ UNCHANGED owner_died
      [] IsAttach(t) ->
            /\ owner_died' = [owner_died EXCEPT ![t] = ~ok]
            /\ pc' = [pc EXCEPT ![t] = IF ok THEN "pig_drop" ELSE "att_check"]
            /\ UNCHANGED <<ret, guards>>
      [] op[t] \in {"pi_lock", "lock_timeout"} ->
            /\ Return(t, IF ok THEN "Ok" ELSE "Err", IF ok THEN "pi" ELSE "none")
            /\ UNCHANGED owner_died

\* compare_exchange(0, me) succeeds.
\* Faulty variants of the acquiring compare-exchange, used to show that the
\* properties below depend on it: a blind store that never compares, and a
\* compare-exchange whose expected value never matches.
CasFromZero_Blind(v) == TRUE

CasFromZero_Never(v) == FALSE

CasFromZero(v) == v = Bare(0)

\* PiMutex::lock_inner, fast path: compare_exchange(0, me, Acquire, Relaxed); on
\* success robust_add and Ok(()).
LockCas(t) ==
    /\ pc[t] = "lock_cas"
    /\ IF CasFromZero(futex)
       THEN /\ futex' = Bare(MY_TID[t])
            /\ robust_add(t)
            /\ LockInnerDone(t, TRUE)
            /\ acqDied' = [acqDied EXCEPT ![t] = abandoned]
            /\ abandoned' = FALSE
       ELSE /\ pc' = [pc EXCEPT ![t] = "lock_pi"]
            /\ UNCHANGED <<futex, nnext, ROBUST, ret, guards, owner_died, histVars>>
    /\ UNCHANGED <<kwaiters, init, data, MY_TID, robust_reg, op, rd, iter, boundVars, testVars, forkVars, cvVars>>

\* PiMutex::lock_inner, slow path: lock_pi(&futex, None). Ok leaves the loop; any
\* error is returned (signals_fail is true at every call site).
LockPi(t) ==
    /\ pc[t] = "lock_pi"
    /\ futex' = LockPiWord(futex, MY_TID[t])
    /\ UNCHANGED <<memVars, tlsVars, op, rd, iter, boundVars, testVars, forkVars, cvVars>>
    /\ CASE LockPiOutcome(futex, MY_TID[t]) = "acquire" ->
               /\ pc' = [pc EXCEPT ![t] = "lock_post"]
               /\ acqDied' = [acqDied EXCEPT ![t] = abandoned]
               /\ abandoned' = FALSE
               /\ UNCHANGED <<kwaiters, ret, guards, owner_died>>
         [] LockPiOutcome(futex, MY_TID[t]) = "queue" ->
               /\ pc' = [pc EXCEPT ![t] = "blocked"]
               /\ kwaiters' = kwaiters \cup {t}
               /\ UNCHANGED <<ret, guards, owner_died, histVars>>
         [] OTHER ->
               /\ LockInnerDone(t, FALSE)
               /\ acqDied' = [acqDied EXCEPT ![t] = abandoned]
               /\ UNCHANGED <<kwaiters, abandoned>>

\* OWNER_DIED is cleared after a slow-path acquisition and not reported.
LockPostWord(v) == IF FUTEX_OWNER_DIED(v) THEN ClearOwnerDied(v) ELSE v

\* PiMutex::lock_inner after lock_pi: load, fetch_and(!FUTEX_OWNER_DIED),
\* robust_add, Ok(()).
LockPost(t) ==
    /\ pc[t] = "lock_post"
    /\ futex' = LockPostWord(futex)
    /\ robust_add(t)
    /\ LockInnerDone(t, TRUE)
    /\ UNCHANGED <<kwaiters, init, data, MY_TID, robust_reg, op, rd, iter, boundVars, testVars, forkVars, cvVars,
                   histVars>>

\* Drop for PiMutexGuard: unlock_pi alone, no robust_remove.
PiGuardDrop(t) ==
    /\ pc[t] = "pig_drop"
    /\ CASE op[t] = "grab" ->
               /\ unlock_pi(t, "idle")
               /\ ret' = [ret EXCEPT ![t] = "Guard"]
               /\ guards' = [guards EXCEPT ![t].grab = @ + 1]
         [] op[t] = "pi_drop" ->
               /\ unlock_pi(t, "idle")
               /\ ret' = [ret EXCEPT ![t] = "Unit"]
               /\ UNCHANGED guards
         [] OTHER ->
               /\ unlock_pi(t, "att_check")
               /\ UNCHANGED <<ret, guards>>
    /\ UNCHANGED <<memVars, tlsVars, op, localVars, boundVars, testVars, forkVars, cvVars, histVars>>

\* lock_try's match on the failed compare_exchange: Err(v) with OWNER_DIED set
\* escalates to lock_pi; any other value is Ok(false).
\* Faulty variant of lock_try's test: every failed compare-exchange escalates to
\* lock_pi, whatever the observed word.
TryEscalates_Always(v) == TRUE

TryEscalates(v) == FUTEX_OWNER_DIED(v)

\* lock_try: compare_exchange(0, me, AcqRel, Relaxed). No robust_add on success.
TryCas(t) ==
    /\ pc[t] = "try_cas"
    /\ UNCHANGED <<kwaiters, memVars, tlsVars, op, localVars, boundVars, testVars, forkVars, cvVars>>
    /\ IF CasFromZero(futex)
       THEN /\ futex' = Bare(MY_TID[t])
            /\ acqDied' = [acqDied EXCEPT ![t] = abandoned]
            /\ abandoned' = FALSE
            /\ Return(t, "OkSome", "ok")
       ELSE IF TryEscalates(futex)
       THEN /\ pc' = [pc EXCEPT ![t] = "try_pi"]
            /\ UNCHANGED <<futex, ret, guards, histVars>>
       ELSE /\ Return(t, "OkNone", "none")
            /\ UNCHANGED <<futex, histVars>>

\* lock_try: lock_pi(&m.futex, None)?; Ok(true). SharedMutexInner::try_lock maps
\* Ok(true) to Ok(Some(guard)) and Err(_) to Err(guard). OWNER_DIED is left set.
TryPi(t) ==
    /\ pc[t] = "try_pi"
    /\ futex' = LockPiWord(futex, MY_TID[t])
    /\ UNCHANGED <<memVars, tlsVars, op, localVars, boundVars, testVars, forkVars, cvVars>>
    /\ CASE LockPiOutcome(futex, MY_TID[t]) = "acquire" ->
               /\ Return(t, "OkSome", "ok")
               /\ acqDied' = [acqDied EXCEPT ![t] = abandoned]
               /\ abandoned' = FALSE
               /\ UNCHANGED kwaiters
         [] LockPiOutcome(futex, MY_TID[t]) = "queue" ->
               /\ pc' = [pc EXCEPT ![t] = "blocked"]
               /\ kwaiters' = kwaiters \cup {t}
               /\ UNCHANGED <<ret, guards, histVars>>
         [] OTHER ->
               /\ Return(t, "Err", "err")
               /\ acqDied' = [acqDied EXCEPT ![t] = abandoned]
               /\ UNCHANGED <<kwaiters, abandoned>>

\* lock_try: lock_pi returned Ok after having waited.
TryOk(t) ==
    /\ pc[t] = "try_ok"
    /\ Return(t, "OkSome", "ok")
    /\ UNCHANGED <<kernelVars, memVars, tlsVars, op, localVars, boundVars, testVars, forkVars, cvVars, histVars>>

\* What the call that ran PiMutex::unlock returns: Drop for SharedGuard returns
\* nothing; try_new_inner returns Ok(handle) / Err(handle) by owner_died.
UnlockRet(t) ==
    IF IsAttach(t) THEN (IF owner_died[t] THEN "Err" ELSE "Ok") ELSE "Unit"

\* compare_exchange(me, 0) succeeds.
\* Faulty variants: the comparison looks at the tid bits only, so a word that
\* carries FUTEX_WAITERS is also replaced by 0 in user space; a blind store that
\* never compares.
CasToZero_Masked(v, me) == FUTEX_TID_MASK(v) = me

CasToZero_Blind(v, me) == TRUE

CasToZero(v, me) == v = Bare(me)

\* The new value of compare_exchange(me, 0).
\* Faulty variant: the new value is `me` again.
Released_Self(me) == Bare(me)

Released(me) == Bare(0)

\* PiMutex::unlock: robust_remove(next_ptr), then
\* compare_exchange(me, 0, Release, Relaxed); return on success.
UnlockCas(t) ==
    /\ pc[t] = "unlock"
    /\ UNCHANGED <<memVars, MY_TID, robust_reg, op, localVars, nops, testVars, forkVars, cvVars>>
    /\ \E o \in RobustRemoveOutcomes(ROBUST[t]) :
          CASE o = "hang" ->
                  /\ pc' = [pc EXCEPT ![t] = "hung"]
                  /\ UNCHANGED <<ROBUST, kernelVars, ret, guards, deaths, histVars>>
            [] o = "crash" ->
                  /\ deaths < MaxDeaths
                  /\ UNCHANGED <<ROBUST, ret>>
                  /\ \E seen \in ExitWalkReads(t) : ThreadExit(t, seen)
            [] OTHER ->
                  /\ ROBUST' = [ROBUST EXCEPT ![t] = RobustRemoved(t, o)]
                  /\ UNCHANGED <<kwaiters, deaths, histVars>>
                  /\ IF CasToZero(futex, MY_TID[t])
                     THEN /\ futex' = Released(MY_TID[t])
                          /\ Return(t, UnlockRet(t), "none")
                     ELSE /\ pc' = [pc EXCEPT ![t] = "unlock_pi"]
                          /\ UNCHANGED <<futex, ret, guards>>

\* PiMutex::unlock: unlock_pi(&self.0.futex), its result ignored.
UnlockPi(t) ==
    /\ pc[t] = "unlock_pi"
    /\ unlock_pi(t, "idle")
    /\ ret' = [ret EXCEPT ![t] = UnlockRet(t)]
    /\ UNCHANGED <<memVars, tlsVars, op, guards, localVars, boundVars, testVars, forkVars, cvVars, histVars>>

\* try_new_inner: `(owner_died && recover_from_poison) || !init`.
AttachCheck(t) ==
    /\ pc[t] = "att_check"
    /\ pc' = [pc EXCEPT ![t] =
                IF (owner_died[t] /\ recover_from_poison(t)) \/ ~init THEN "att_write"
                ELSE "unlock"]
    /\ UNCHANGED <<kernelVars, memVars, tlsVars, callVars, localVars, boundVars, testVars, forkVars, cvVars,
                   histVars>>

\* try_new_inner: data.write(initial()); init = true; then futex.unlock(). The
\* tests and the driver attach with an initial value of 0.
AttachWrite(t) ==
    /\ pc[t] = "att_write"
    /\ data' = 0
    /\ init' = TRUE
    /\ pc' = [pc EXCEPT ![t] = "unlock"]
    /\ UNCHANGED <<kernelVars, nnext, tlsVars, callVars, localVars, boundVars, testVars, forkVars, cvVars,
                   histVars>>

\* `*guard += 1` through DerefMut: a read of the payload ...
IncRead(t) ==
    /\ pc[t] = "inc_read"
    /\ rd' = [rd EXCEPT ![t] = data]
    /\ pc' = [pc EXCEPT ![t] = "inc_write"]
    /\ UNCHANGED <<kernelVars, memVars, tlsVars, callVars, owner_died, iter,
                   boundVars, testVars, forkVars, cvVars, histVars>>

\* ... and a write of the sum.
IncWrite(t) ==
    /\ pc[t] = "inc_write"
    /\ data' = rd[t] + 1
    /\ iter' = [iter EXCEPT ![t] = @ + 1]
    /\ Return(t, "Unit", "none")
    /\ UNCHANGED <<kernelVars, nnext, init, tlsVars, op, owner_died, rd, boundVars, testVars, forkVars, cvVars,
                   histVars>>

\* PiMutex::is_locked_by_me: `tid() as u32 & FUTEX_TID_MASK == futex.load(Relaxed)`,
\* the caller's tid against the whole word.
is_locked_by_me(v, me) == Bare(me) = v

\* PiMutex::is_locked_by_me, the load and the comparison.
IsLockedByMe(t) ==
    /\ pc[t] = "ilbm_load"
    /\ Return(t, IF is_locked_by_me(futex, MY_TID[t]) THEN "true" ELSE "false", "none")
    /\ UNCHANGED <<kernelVars, memVars, tlsVars, op, localVars, boundVars, testVars,
                   forkVars, cvVars, histVars>>

\* lock_inner's error arms: ETIMEDOUT becomes ErrorKind::TimedOut, any other errno
\* is passed on.
LockErr(e) == IF e = "ETIMEDOUT" THEN "TimedOut" ELSE "Err"

\* sys::lock_pi with a timeout passes `&t` of the closure parameter of
\* `timeout.map(|t| &t as *const _ as usize)`: the kernel reads the timespec from a
\* slot that is dead when the syscall runs. Reading a value that is no valid
\* timespec makes FUTEX_LOCK_PI fail with EINVAL before it looks at the word.
LockPiInvalid(t) ==
    /\ pc[t] = "lock_pi"
    /\ op[t] = "lock_timeout"
    /\ Return(t, LockErr("EINVAL"), "none")
    /\ UNCHANGED <<kernelVars, memVars, tlsVars, op, localVars, boundVars, testVars, forkVars, cvVars,
                   histVars>>

\* The deadline the kernel read passes while the caller is queued: it leaves the
\* queue (the word keeps FUTEX_WAITERS) and lock_pi fails with ETIMEDOUT.
LockTimedOut(t) ==
    /\ pc[t] = "blocked"
    /\ op[t] = "lock_timeout"
    /\ kwaiters' = kwaiters \ {t}
    /\ Return(t, LockErr("ETIMEDOUT"), "none")
    /\ UNCHANGED <<futex, memVars, tlsVars, op, localVars, boundVars, testVars, forkVars, cvVars,
                   histVars>>

\* --------------------------------------------------------------- condvar.rs
\* i32::MAX, the requeue count notify_all passes.
I32_MAX == 2147483647

\* notify_one is wake(m, 0), notify_all is wake(m, i32::MAX).
\* Faulty variants: the two counts are exchanged; both calls pass i32::MAX.
RequeueCount_Swapped(o) == IF o = "notify_all" THEN 0 ELSE I32_MAX

RequeueCount_All(o) == I32_MAX

RequeueCount(o) == IF o = "notify_all" THEN I32_MAX ELSE 0

\* The value wait_requeue_pi is given to compare the generation with: the
\* snapshot taken before the guard was dropped.
\* Faulty variant: the generation is read again when the syscall is made.
WaitExpected_Reload(t) == cv

WaitExpected(t) == start[t]

\* wait_inner's match on the result of wait_requeue_pi.
\* Faulty variant: EAGAIN (generation mismatch) is treated like Ok.
WaitResult_IgnoreAgain(e) ==
    CASE e \in {"OK", "EAGAIN"} -> "Ok"
      [] e = "ETIMEDOUT" -> "TimedOut"
      [] e = "EINTR" -> "Interrupted"
      [] OTHER -> "Err"

WaitResult(e) ==
    CASE e = "OK" -> "Ok"
      [] e = "ETIMEDOUT" -> "TimedOut"
      [] e = "EINTR" -> "Interrupted"
      [] OTHER -> "Err"

\* wait_inner returns: Ok carries a new PiMutexGuard, an error carries nothing.
WaitReturn(t, e) ==
    Return(t, WaitResult(e), IF WaitResult(e) = "Ok" THEN "pi" ELSE "none")

\* PiCondvar::wait / wait_timeout take the PiMutexGuard by value; wait_inner
\* first loads the generation (SeqCst).
StartWait(t, o) ==
    /\ pc[t] = "idle"
    /\ guards[t].pi > 0
    /\ guards' = [guards EXCEPT ![t].pi = @ - 1]
    /\ start' = [start EXCEPT ![t] = cv]
    /\ pc' = [pc EXCEPT ![t] = "cw_drop"]
    /\ op' = [op EXCEPT ![t] = o]
    /\ nops' = nops + 1
    /\ UNCHANGED <<kernelVars, memVars, tlsVars, ret, localVars, deaths, testVars, forkVars,
                   cv, cvq, newgen, histVars>>

\* wait_inner: drop(guard), i.e. unlock_pi.
WaitDrop(t) ==
    /\ pc[t] = "cw_drop"
    /\ unlock_pi(t, "cw_wait")
    /\ UNCHANGED <<memVars, tlsVars, callVars, localVars, boundVars, testVars, forkVars, cvVars,
                   histVars>>

\* wait_inner: wait_requeue_pi(&self.0, start, ts, &mutex). The kernel compares
\* the generation with the expected value: EAGAIN on a mismatch, else the caller
\* is suspended on the condvar word.
WaitRequeue(t) ==
    /\ pc[t] = "cw_wait"
    /\ IF cv # WaitExpected(t)
       THEN /\ WaitReturn(t, "EAGAIN")
            /\ UNCHANGED cvq
       ELSE /\ cvq' = cvq \cup {t}
            /\ pc' = [pc EXCEPT ![t] = "cw_parked"]
            /\ UNCHANGED <<ret, guards>>
    /\ UNCHANGED <<kernelVars, memVars, tlsVars, op, localVars, boundVars, testVars, forkVars,
                   cv, start, newgen, histVars>>

\* sys::wait_requeue_pi passes the timeout like sys::lock_pi does, as the address of
\* a dead closure parameter: a value read there that is no valid timespec makes
\* the syscall fail with EINVAL.
WaitInvalid(t) ==
    /\ pc[t] = "cw_wait"
    /\ op[t] = "wait_timeout"
    /\ WaitReturn(t, "EINVAL")
    /\ UNCHANGED <<kernelVars, memVars, tlsVars, op, localVars, boundVars, testVars, forkVars,
                   cvVars, histVars>>

\* The deadline the kernel read passes while the caller is suspended on the
\* condvar word, or queued on the mutex after a requeue: ETIMEDOUT, without the
\* mutex.
WaitTimedOut(t) ==
    /\ op[t] = "wait_timeout"
    /\ pc[t] \in {"cw_parked", "blocked"}
    /\ cvq' = cvq \ {t}
    /\ kwaiters' = kwaiters \ {t}
    /\ WaitReturn(t, "ETIMEDOUT")
    /\ UNCHANGED <<futex, memVars, tlsVars, op, localVars, boundVars, testVars, forkVars,
                   cv, start, newgen, histVars>>

\* wait_inner after wait_requeue_pi returned Ok: OWNER_DIED is cleared and a new
\* PiMutexGuard is returned.
WaitPost(t) ==
    /\ pc[t] = "cw_post"
    /\ futex' = LockPostWord(futex)
    /\ WaitReturn(t, "OK")
    /\ UNCHANGED <<kwaiters, memVars, tlsVars, op, localVars, boundVars, testVars, forkVars,
                   cvVars, histVars>>

\* PiCondvar::notify_one / notify_all call wake.
StartNotify(t, o) ==
    /\ pc[t] = "idle"
    /\ pc' = [pc EXCEPT ![t] = "cn_add"]
    /\ op' = [op EXCEPT ![t] = o]
    /\ nops' = nops + 1
    /\ UNCHANGED <<kernelVars, memVars, tlsVars, ret, guards, localVars, deaths,
                   testVars, forkVars, cvVars, histVars>>

\* What `old + 1` on the u32 that fetch_add returned can do: a build with
\* overflow checks (the dev and test profiles) panics when old is u32::MAX, a
\* build without them wraps.
AddOneOutcomes(old) == IF old = U32_MAX THEN {"panic", "wrap"} ELSE {"sum"}

\* wake: new_gen = fetch_add(1, SeqCst) + 1. fetch_add stores the wrapped sum;
\* a panic in the addition leaves wake before cmp_requeue_pi is called.
NotifyAdd(t) ==
    /\ pc[t] = "cn_add"
    /\ cv' = wrapping_add1(cv)
    /\ \E o \in AddOneOutcomes(cv) :
          IF o = "panic"
          THEN /\ Return(t, "Panic", "none")
               /\ UNCHANGED newgen
          ELSE /\ newgen' = [newgen EXCEPT ![t] = wrapping_add1(cv)]
               /\ pc' = [pc EXCEPT ![t] = "cn_requeue"]
               /\ UNCHANGED <<ret, guards>>
    /\ UNCHANGED <<kernelVars, memVars, tlsVars, op, localVars, boundVars,
                   testVars, forkVars, cvq, start, histVars>>

\* How many waiters FUTEX_CMP_REQUEUE_PI takes off a condvar word with n waiters
\* for nr_wake = 1 and the given nr_requeue: the top waiter, then nr_requeue more.
Leaving(n, requeue) == IF requeue >= n THEN n ELSE requeue + 1

\* wake: cmp_requeue_pi(&self.0, 1, requeue, &mutex, new_gen). EAGAIN when the
\* generation is no longer new_gen. Otherwise, if the mutex is free, the top
\* waiter becomes its owner and is woken, and the other leaving waiters are
\* queued on the mutex; if the mutex is held, all leaving waiters are queued on it.
NotifyRequeue(t) ==
    /\ pc[t] = "cn_requeue"
    /\ UNCHANGED <<memVars, tlsVars, op, guards, localVars, boundVars, testVars, forkVars,
                   cv, start, newgen, histVars>>
    /\ IF cv # newgen[t]
       THEN /\ ret' = [ret EXCEPT ![t] = "Err"]
            /\ pc' = [pc EXCEPT ![t] = "idle"]
            /\ UNCHANGED <<kernelVars, cvq>>
       ELSE /\ ret' = [ret EXCEPT ![t] = "Ok"]
            /\ \E L \in SUBSET cvq :
                  /\ Cardinality(L) = Leaving(Cardinality(cvq), RequeueCount(op[t]))
                  /\ cvq' = cvq \ L
                  /\ IF L = {}
                     THEN /\ UNCHANGED kernelVars
                          /\ pc' = [pc EXCEPT ![t] = "idle"]
                     ELSE IF FUTEX_TID_MASK(futex) = 0 /\ kwaiters = {}
                     THEN \E w \in L :
                             /\ futex' = Word(w, RequeueCount(op[t]) > 0, futex.died)
                             /\ kwaiters' = L \ {w}
                             /\ pc' = [u \in Threads |->
                                          IF u = t THEN "idle"
                                          ELSE IF u = w THEN "cw_post"
                                          ELSE IF u \in L THEN "blocked"
                                          ELSE pc[u]]
                     ELSE /\ futex' = [futex EXCEPT !.waiters = TRUE]
                          /\ kwaiters' = kwaiters \cup L
                          /\ pc' = [u \in Threads |->
                                       IF u = t THEN "idle"
                                       ELSE IF u \in L THEN "blocked"
                                       ELSE pc[u]]

\* A thread that has used the mutex ends between calls; guards it still has were
\* forgotten, not dropped.
Die(t) ==
    /\ pc[t] = "idle"
    /\ MY_TID[t] # 0
    /\ deaths < MaxDeaths
    /\ \E seen \in ExitWalkReads(t) : ThreadExit(t, seen)
    /\ UNCHANGED <<memVars, tlsVars, op, ret, localVars, nops, testVars, forkVars, cvVars>>

\* atfork_child, the hook tid() installs with pthread_atfork: the cached tid the
\* child inherited is reset to 0.
atfork_child(v) == 0

\* Thread p, which has called tid(), forks; c is the thread of the child process.
\* The child's memory is a copy of the parent's (the cached tid, after
\* atfork_child, and the OnceCell with the head); the mutex is in the shared
\* region; the kernel gives the child no robust list. The child does not use the
\* guards it inherited.
Fork(p, c) ==
    /\ pc[p] = "idle"
    /\ MY_TID[p] # 0
    /\ p # c
    /\ pc[c] = "idle" /\ op[c] = "none" /\ MY_TID[c] = 0 /\ forkedFrom[c] = 0
    /\ \A u \in Threads : u < c => MY_TID[u] # 0
    /\ MY_TID' = [MY_TID EXCEPT ![c] = atfork_child(MY_TID[p])]
    /\ ROBUST' = [ROBUST EXCEPT ![c] = ROBUST[p]]
    /\ robust_reg' = [robust_reg EXCEPT ![c] = Null]
    /\ forkedFrom' = [forkedFrom EXCEPT ![c] = p]
    /\ nops' = nops + 1
    /\ UNCHANGED <<kernelVars, memVars, callVars, localVars, deaths, testVars, cvVars,
                   histVars, pc>>

\* ------------------------------------------------------------ calls a thread makes
\* "Not reentrant: a thread holding the lock must not re-acquire it": the blocking
\* entry points are called by threads that do not own the mutex.
MayAcquire(t) == FUTEX_TID_MASK(futex) # t

StartLock(t) == MayAcquire(t) /\ Begin(t, "lock", "lock_cas")

StartGrab(t) == MayAcquire(t) /\ Begin(t, "grab", "lock_cas")

StartNew(t) == MayAcquire(t) /\ Begin(t, "new", "lock_cas")

StartTryNew(t) == MayAcquire(t) /\ Begin(t, "try_new", "lock_cas")

StartTryLock(t) == Begin(t, "try_lock", "try_cas")

\* PiMutex::lock and PiMutex::lock_timeout, which return a PiMutexGuard.
StartPiLock(t) == MayAcquire(t) /\ Begin(t, "pi_lock", "lock_cas")

StartLockTimeout(t) == MayAcquire(t) /\ Begin(t, "lock_timeout", "lock_cas")

\* A PiMutexGuard is dropped.
StartPiDrop(t) ==
    /\ pc[t] = "idle"
    /\ guards[t].pi > 0
    /\ guards' = [guards EXCEPT ![t].pi = @ - 1]
    /\ pc' = [pc EXCEPT ![t] = "pig_drop"]
    /\ op' = [op EXCEPT ![t] = "pi_drop"]
    /\ nops' = nops + 1
    /\ UNCHANGED <<kernelVars, memVars, tlsVars, ret, localVars, deaths, testVars, forkVars, cvVars,
                   histVars>>

\* PiMutex::is_locked_by_me reads tid() first.
StartIsLockedByMe(t) == Begin(t, "is_locked_by_me", "ilbm_load")

\* A SharedGuard is dropped: Drop for SharedGuard calls PiMutex::unlock.
StartDrop(t) ==
    /\ pc[t] = "idle"
    /\ \E g \in {"ok", "err", "grab"} :
          /\ guards[t][g] > 0
          /\ guards' = [guards EXCEPT ![t][g] = @ - 1]
    /\ pc' = [pc EXCEPT ![t] = "unlock"]
    /\ op' = [op EXCEPT ![t] = "drop"]
    /\ nops' = nops + 1
    /\ UNCHANGED <<kernelVars, memVars, tlsVars, ret, localVars, deaths, testVars, forkVars, cvVars,
                   histVars>>

StartInc(t) ==
    /\ guards[t] # NoGuards
    /\ Begin(t, "inc", "inc_read")

\* The steps inside lock_inner and PiMutex::unlock.
Step(t) ==
    \/ LockCas(t)
    \/ LockPi(t)
    \/ LockPost(t)
    \/ UnlockCas(t)
    \/ UnlockPi(t)

\* The steps inside lock_try.
TryStep(t) ==
    \/ TryCas(t)
    \/ TryPi(t)
    \/ TryOk(t)

\* Any thread makes any of lock, try_lock and guard drop, up to MaxOps calls in
\* all; a thread may end.
Next ==
    \E t \in Threads :
        \/ /\ nops < MaxOps
           /\ \/ StartLock(t)
              \/ StartTryLock(t)
              \/ StartDrop(t)
        \/ Step(t)
        \/ TryStep(t)
        \/ Die(t)

Spec == Init /\ [][Next]_vars

\* Threads attach to the region (SharedMutex::new, try_new), grab, lock and drop
\* guards, up to MaxAttachOps calls in all; a thread may end.
NextAttach ==
    \E t \in Threads :
        \/ /\ nops < MaxAttachOps
           /\ \/ StartNew(t)
              \/ StartTryNew(t)
              \/ StartGrab(t)
              \/ StartLock(t)
              \/ StartDrop(t)
        \/ Step(t)
        \/ PiGuardDrop(t)
        \/ AttachCheck(t)
        \/ AttachWrite(t)
        \/ Die(t)

SpecAttach == Init /\ [][NextAttach]_vars

\* ReleaseThreads threads attach, grab, lock and drop guards, up to MaxReleaseOps
\* calls in all; a thread may end.
NextRelease ==
    \E t \in Threads :
        \/ /\ nops < MaxReleaseOps
           /\ t <= ReleaseThreads
           /\ \/ StartNew(t)
              \/ StartTryNew(t)
              \/ StartGrab(t)
              \/ StartLock(t)
              \/ StartDrop(t)
        \/ Step(t)
        \/ PiGuardDrop(t)
        \/ AttachCheck(t)
        \/ AttachWrite(t)
        \/ Die(t)

SpecRelease == Init /\ [][NextRelease]_vars

\* Threads use the PiMutex directly: lock, lock_timeout and PiMutexGuard drops,
\* up to MaxTimedOps calls in all.
NextTimed ==
    \E t \in Threads :
        \/ /\ nops < MaxTimedOps
           /\ \/ StartPiLock(t)
              \/ StartLockTimeout(t)
              \/ StartPiDrop(t)
        \/ LockCas(t)
        \/ LockPi(t)
        \/ LockPost(t)
        \/ PiGuardDrop(t)
        \/ LockPiInvalid(t)
        \/ LockTimedOut(t)

SpecTimed == Init /\ [][NextTimed]_vars

\* Threads use a PiMutex with a PiCondvar: lock, guard drop, wait, wait_timeout,
\* notify_one and notify_all, up to MaxCvOps calls in all.
NextCondvar ==
    \E t \in Threads :
        \/ /\ nops < MaxCvOps
           /\ \/ StartPiLock(t)
              \/ StartPiDrop(t)
              \/ StartWait(t, "wait")
              \/ StartWait(t, "wait_timeout")
              \/ StartNotify(t, "notify_one")
              \/ StartNotify(t, "notify_all")
        \/ LockCas(t)
        \/ LockPi(t)
        \/ LockPost(t)
        \/ PiGuardDrop(t)
        \/ WaitDrop(t)
        \/ WaitRequeue(t)
        \/ WaitInvalid(t)
        \/ WaitTimedOut(t)
        \/ WaitPost(t)
        \/ NotifyAdd(t)
        \/ NotifyRequeue(t)

SpecCondvar == Init /\ [][NextCondvar]_vars

\* Threads lock, drop guards, fork and end, up to MaxForkOps calls in all.
NextFork ==
    \E t \in Threads :
        \/ /\ nops < MaxForkOps
           /\ \/ StartLock(t)
              \/ StartDrop(t)
              \/ \E c \in Threads : Fork(t, c)
        \/ Step(t)
        \/ Die(t)

SpecFork == Init /\ [][NextFork]_vars

\* Threads lock, try_lock, drop guards and ask is_locked_by_me, up to MaxPredOps
\* calls in all; a thread may end.
NextPred ==
    \E t \in Threads :
        \/ /\ nops < MaxPredOps
           /\ \/ StartLock(t)
              \/ StartTryLock(t)
              \/ StartDrop(t)
              \/ StartIsLockedByMe(t)
        \/ Step(t)
        \/ TryStep(t)
        \/ IsLockedByMe(t)
        \/ Die(t)

SpecPred == Init /\ [][NextPred]_vars

\* Generations of a condvar that has been in use for a long time: around the
\* carry between the halves and around the wrap of the 32-bit word.
NearWrap == {U32Of(0), U32Of(Half - 1), <<Half - 1, Half - 2>>, U32_MAX}

InitWrap ==
    /\ FreshMutex
    /\ cv \in NearWrap
    /\ init = FALSE
    /\ data = 0
    /\ nthreads = 0
    /\ niters = 0

\* Threads lock, drop guards, wait and notify on such a condvar, up to MaxWrapOps
\* calls in all.
NextWrap ==
    \E t \in Threads :
        \/ /\ nops < MaxWrapOps
           /\ \/ StartPiLock(t)
              \/ StartPiDrop(t)
              \/ StartWait(t, "wait")
              \/ StartNotify(t, "notify_one")
              \/ StartNotify(t, "notify_all")
        \/ LockCas(t)
        \/ LockPi(t)
        \/ LockPost(t)
        \/ PiGuardDrop(t)
        \/ WaitDrop(t)
        \/ WaitRequeue(t)
        \/ WaitPost(t)
        \/ NotifyAdd(t)
        \/ NotifyRequeue(t)

SpecWrap == InitWrap /\ [][NextWrap]_vars

\* One notify_all for parked waiters: each of nthreads threads runs
\* { lock; wait; drop the guard wait returned }, and one more thread calls
\* notify_all once, when all of them are suspended on the condvar.
InitNotifyAll ==
    /\ Fresh
    /\ init = TRUE
    /\ data = 0
    /\ nthreads \in 1..MaxWaiters
    /\ niters = 1

WaiterCall(t) ==
    /\ t <= nthreads
    /\ \/ op[t] = "none" /\ StartPiLock(t)
       \/ op[t] = "pi_lock" /\ ret[t] = "Ok" /\ StartWait(t, "wait")
       \/ op[t] = "wait" /\ ret[t] = "Ok" /\ StartPiDrop(t)

NotifierCall(t) ==
    /\ t = nthreads + 1
    /\ op[t] = "none"
    /\ cvq = 1..nthreads
    /\ StartNotify(t, "notify_all")

NotifyAllStep(t) ==
    \/ WaiterCall(t)
    \/ NotifierCall(t)
    \/ LockCas(t)
    \/ LockPi(t)
    \/ LockPost(t)
    \/ PiGuardDrop(t)
    \/ WaitDrop(t)
    \/ WaitRequeue(t)
    \/ WaitPost(t)
    \/ NotifyAdd(t)
    \/ NotifyRequeue(t)

NextNotifyAll == \E t \in Threads : NotifyAllStep(t)

\* Fair scheduling: a thread that can take a step eventually takes one.
FairNotifyAll == \A t \in Threads : WF_vars(NotifyAllStep(t))

SpecNotifyAll == InitNotifyAll /\ [][NextNotifyAll]_vars /\ FairNotifyAll

\* ------------------------------------------------------------ the counter test
\* test_multiple_threads_counter: the region was attached with 0, then each of
\* nthreads threads runs niters times { lock().unwrap(); *guard += 1; drop }.
InitCounter ==
    /\ Fresh
    /\ init = TRUE
    /\ data = 0
    /\ nthreads \in 1..CounterThreads
    /\ niters \in 1..Iterations

CounterCall(t) ==
    /\ t <= nthreads
    /\ \/ op[t] \in {"none", "drop"} /\ iter[t] < niters /\ StartLock(t)
       \/ op[t] = "lock" /\ ret[t] = "Ok" /\ StartInc(t)
       \/ op[t] = "inc" /\ StartDrop(t)

NextCounter ==
    \E t \in Threads :
        \/ CounterCall(t)
        \/ Step(t)
        \/ IncRead(t)
        \/ IncWrite(t)

SpecCounter == InitCounter /\ [][NextCounter]_vars

\* Fair scheduling of the counter test: every thread that can take a step (start
\* its next call, or continue the call it is in) eventually takes one.
FairCounter ==
    \A t \in Threads :
        WF_vars(CounterCall(t) \/ Step(t) \/ IncRead(t) \/ IncWrite(t))

SpecCounterFair == InitCounter /\ [][NextCounter]_vars /\ FairCounter

\* ------------------------------------------------------------------ claims

Owner == FUTEX_TID_MASK(futex)

\* Threads that hold a guard returned as Ok(guard) / Ok(Some(guard)).
OkHolders == {t \in Threads : pc[t] # "dead" /\ guards[t].ok > 0}

\* C1: no two threads hold a guard returned as Ok on the mutex, and while such a
\* guard is live the tid bits of the futex word are the holder's tid.
C1_MutualExclusion ==
    \A t \in OkHolders : Owner = t /\ OkHolders = {t}

\* The step in which thread t's call o returns.
Returns(t, o) == op[t] = o /\ pc[t] # "idle" /\ pc'[t] = "idle"

\* Every counter thread has run all its iterations and dropped its last guard.
CounterDone ==
    \A t \in 1..nthreads : iter[t] = niters /\ op[t] = "drop" /\ pc[t] = "idle"

\* C2: when nthreads threads have each run niters iterations of
\* { lock; read; write +1; drop } on a payload that started at 0, the payload is
\* nthreads * niters.
C2_NoLostIncrement == CounterDone => data = nthreads * niters

C2_Witness ==
    /\ CounterDone
    /\ nthreads = CounterThreads
    /\ niters = Iterations
    /\ data = CounterThreads * Iterations

\* C3: a lock() that acquires the mutex after its holder terminated returns
\* Err(guard), not Ok(guard).
C3_DeathReported ==
    \A t \in Threads :
        (op[t] = "lock" /\ pc[t] = "idle" /\ acqDied[t]) => ret[t] = "Err"

\* C4: when lock or try_lock returns Err(guard), the tid bits of the futex word
\* are the caller's tid and no other thread holds a guard.
C4_ErrGuardOwns ==
    [][\A t \in Threads :
          ((Returns(t, "lock") \/ Returns(t, "try_lock")) /\ ret'[t] = "Err")
              => /\ FUTEX_TID_MASK(futex') = t
                 /\ \A u \in Threads \ {t} : pc[u] = "dead" \/ guards[u] = NoGuards]_vars

\* C5: from grab's return to the drop of its guard the tid bits of the futex word
\* are the caller's tid.
C5_GrabHolds ==
    \A t \in Threads : (pc[t] # "dead" /\ guards[t].grab > 0) => Owner = t

\* C6: in try_new_inner, from the successful lock to the unlock at the end of the
\* block (the check of `init`, the write of the payload and of `init`) the tid
\* bits of the futex word are the attaching thread's tid.
C6_InitUnderLock ==
    \A t \in Threads :
        (pc[t] \in {"att_check", "att_write"} /\ ~owner_died[t]) => Owner = t

\* The step in which thread t's try_lock runs its compare-exchange.
TryCasStep(t) == pc[t] = "try_cas" /\ pc'[t] # "try_cas"

\* A live thread owns the mutex and the word carries no OWNER_DIED bit.
HeldClean ==
    /\ Owner # 0
    /\ pc[Owner] # "dead"
    /\ ~FUTEX_OWNER_DIED(futex)

\* C7: once the mutex is not abandoned (the acquirer after a death has taken
\* it, and nobody died holding it since), every lock() that returns returns
\* Ok(guard), and every try_lock() whose compare-exchange meets the free word
\* returns Ok(Some(guard)) with the caller as owner.
C7_CleanAfterRecovery ==
    [][\A t \in Threads :
          /\ (Returns(t, "lock") /\ ~abandoned) => ret'[t] = "Ok"
          /\ (TryCasStep(t) /\ futex = Bare(0))
                => (ret'[t] = "OkSome" /\ pc'[t] = "idle" /\ FUTEX_TID_MASK(futex') = t)]_vars

\* C7 case: a thread acquired the abandoned mutex with lock() and dropped its
\* guard, and then another thread's lock() returned Ok(guard).
C7_Witness ==
    \E u, t \in Threads :
        /\ u # t
        /\ deaths > 0
        /\ acqDied[u] /\ op[u] = "drop" /\ pc[u] = "idle"
        /\ op[t] = "lock" /\ pc[t] = "idle" /\ ret[t] = "Ok"
        /\ ~acqDied[t] /\ ~abandoned
        /\ futex = Bare(t)

\* C8: a try_lock that acquires the mutex after its holder died returns
\* Err(guard), neither Ok(Some(guard)) nor Ok(None).
C8_TryLockReportsDeath ==
    \A t \in Threads :
        (op[t] = "try_lock" /\ pc[t] = "idle" /\ acqDied[t]) => ret[t] = "Err"

\* C9: no call of try_lock ever waits in the kernel for another thread to
\* release the mutex.
C9_TryLockNeverBlocks ==
    \A t \in Threads : ~(op[t] = "try_lock" /\ pc[t] = "blocked")

\* C10: a try_lock whose compare-exchange runs while a live thread holds the
\* mutex with OWNER_DIED clear returns Ok(None) and leaves the futex word
\* unchanged; the holder's completed drop leaves the word free when no thread
\* waits in the kernel, and a try_lock on the free word returns Ok(Some(guard)).
C10_TryLockHeldThenFree ==
    [][\A t \in Threads :
          /\ (TryCasStep(t) /\ HeldClean)
                => (ret'[t] = "OkNone" /\ pc'[t] = "idle" /\ futex' = futex)
          /\ (Returns(t, "drop") /\ Owner = t /\ kwaiters = {})
                => futex' = Bare(0)
          /\ (TryCasStep(t) /\ futex = Bare(0)) => ret'[t] = "OkSome"]_vars

\* C10 case: one thread's try_lock returned Ok(None) against a live holder, the
\* holder dropped its guard, and a third thread's try_lock returned
\* Ok(Some(guard)).
C10_Witness ==
    \E h, u, t \in Threads :
        /\ h # u /\ h # t /\ u # t
        /\ deaths = 0
        /\ op[h] = "drop" /\ pc[h] = "idle"
        /\ op[u] = "try_lock" /\ pc[u] = "idle" /\ ret[u] = "OkNone"
        /\ op[t] = "try_lock" /\ pc[t] = "idle" /\ ret[t] = "OkSome"
        /\ futex = Bare(t)

\* The step in which thread t's attach (try_new_inner) decides whether to write.
AttachDecides(t) == pc[t] = "att_check" /\ pc'[t] # "att_check"

\* The step in which thread t's attach writes the payload and `init`.
AttachWrites(t) == pc[t] = "att_write" /\ pc'[t] # "att_write"

\* C11: try_new returns Err(handle) exactly when its lock met a mutex abandoned
\* by a dead owner (Ok(handle) otherwise), and a try_new that found the owner
\* dead on an initialised region decides not to write the payload.
C11_TryNewReportsDeath ==
    [][\A t \in Threads :
          /\ Returns(t, "try_new") => (ret'[t] = "Err" <=> acqDied[t])
          /\ (op[t] = "try_new" /\ owner_died[t] /\ init /\ AttachDecides(t))
                => pc'[t] # "att_write"]_vars

\* C12: a SharedMutex::new whose lock met a mutex abandoned by a dead owner goes
\* on to rewrite the payload with `initial`.
C12_NewRecovers ==
    [][\A t \in Threads :
          (op[t] = "new" /\ acqDied[t] /\ AttachDecides(t)) => pc'[t] = "att_write"]_vars

\* C13: while no owner has died, an attach writes `initial` only to a region
\* that is not initialised yet (so the payload is written once, by the first
\* attach).
C13_InitOnce ==
    [][\A t \in Threads : (AttachWrites(t) /\ deaths = 0) => ~init]_vars

\* C14: under fair scheduling, with no thread dying and every holder dropping
\* its guard, every lock() that has been called eventually returns Ok(guard)
\* with the caller owning the mutex.
C14_LockReturns ==
    \A t \in Threads :
        (op[t] = "lock" /\ pc[t] # "idle")
            ~> (op[t] = "lock" /\ pc[t] = "idle" /\ ret[t] = "Ok" /\ Owner = t)

\* C14 case: a lock() that waited in the kernel was handed the mutex by the
\* holder's release and returned Ok(guard).
C14_Witness ==
    \E t \in Threads :
        /\ op[t] = "lock" /\ pc[t] = "idle" /\ ret[t] = "Ok"
        /\ futex = Word(t, TRUE, FALSE)
        /\ kwaiters = {}

\* C15: a lock_timeout call that returns while another thread holds the mutex
\* returns the TimedOut error, leaves the tid bits of the word the holder's,
\* and changes neither the caller's robust list nor its guards.
C15_TimedOutClean ==
    [][\A t \in Threads :
          (Returns(t, "lock_timeout") /\ Owner # 0 /\ Owner # t)
              => /\ ret'[t] = "TimedOut"
                 /\ FUTEX_TID_MASK(futex') = Owner
                 /\ ROBUST'[t] = ROBUST[t]
                 /\ guards'[t] = guards[t]]_vars

\* Thread t is the only thread that has called into the mutex so far.
SingleThreaded(t) == \A u \in Threads \ {t} : MY_TID[u] = 0

\* C16: in a single-threaded run, the futex word is 0 after every completed
\* release (guard drop through PiMutex::unlock) that follows a lock or try_lock.
C16_ZeroAfterRelease ==
    [][\A t \in Threads :
          (Returns(t, "drop") /\ SingleThreaded(t)) => futex' = Bare(0)]_vars

\* C16 case: a single thread acquired with lock and with try_lock, released
\* both times, and the word is 0.
C16_Witness ==
    /\ SingleThreaded(1)
    /\ op[1] = "drop" /\ pc[1] = "idle"
    /\ nops >= 4
    /\ futex = Bare(0)

\* The step in which thread t's wait / wait_timeout returns.
WaitReturns(t) == Returns(t, "wait") \/ Returns(t, "wait_timeout")

\* C17: a wait / wait_timeout that returns Ok(guard) returns with the tid bits
\* of the futex word equal to the caller's tid; one that returns an error
\* returns with the caller not owning the mutex.
C17_WaitOwnership ==
    [][\A t \in Threads :
          WaitReturns(t) => (ret'[t] = "Ok" <=> FUTEX_TID_MASK(futex') = t)]_vars

\* C17 case: one wait returned Ok(guard) to the owner, another returned an error.
C17_Witness ==
    \E t, u \in Threads :
        /\ t # u
        /\ op[t] \in {"wait", "wait_timeout"} /\ pc[t] = "idle" /\ ret[t] = "Ok"
        /\ futex.tid = t /\ guards[t].pi = 1
        /\ op[u] \in {"wait", "wait_timeout"} /\ pc[u] = "idle"
        /\ ret[u] \in {"TimedOut", "Err"}

\* C18: under fair scheduling, after one notify_all for nthreads parked waiters,
\* every parked wait eventually returns Ok(guard) with the caller owning the mutex
\* and no other thread holding a guard.
C18_NotifyAllWakesAll ==
    \A t \in Threads :
        (t <= nthreads /\ pc[t] = "cw_parked")
            ~> /\ op[t] = "wait" /\ pc[t] = "idle" /\ ret[t] = "Ok"
               /\ Owner = t
               /\ \A u \in Threads \ {t} : guards[u].pi = 0

\* C18 case: MaxWaiters waiters were parked, notify_all was called, and every
\* waiter has returned from wait and dropped its guard.
C18_Witness ==
    /\ nthreads = MaxWaiters
    /\ \A t \in 1..nthreads : op[t] = "pi_drop" /\ pc[t] = "idle"
    /\ op[nthreads + 1] = "notify_all" /\ ret[nthreads + 1] = "Ok"
    /\ cvq = {}

\* C19: a waiter that reaches wait_requeue_pi after the generation has moved
\* away from its snapshot is not suspended on the condvar: its wait returns.
C19_NoLostWakeup ==
    [][\A t \in Threads :
          (pc[t] = "cw_wait" /\ pc'[t] # "cw_wait" /\ cv # start[t])
              => (pc'[t] = "idle" /\ t \notin cvq')]_vars

\* C19 case: a wait returned an error because a notify bumped the generation
\* between its snapshot and its wait_requeue_pi.
C19_Witness ==
    \E t \in Threads :
        /\ op[t] = "wait" /\ pc[t] = "idle" /\ ret[t] = "Err"
        /\ cv # start[t]
        /\ t \notin cvq

\* C20: the wake of a notify_one takes at most one waiter off the condvar
\* queue; all other parked waiters stay parked.
C20_NotifyOneWakesOne ==
    [][\A t \in Threads :
          (op[t] = "notify_one" /\ pc[t] = "cn_requeue" /\ pc'[t] = "idle")
              => Cardinality(cvq \ cvq') <= 1]_vars

\* C20 case: with two waiters parked, notify_one returned Ok, one waiter was
\* woken and the other is still parked.
C20_Witness ==
    \E n, w, p \in Threads :
        /\ op[n] = "notify_one" /\ pc[n] = "idle" /\ ret[n] = "Ok"
        /\ pc[w] = "cw_post"
        /\ pc[p] = "cw_parked"
        /\ cv = U32Of(1)

\* The mutex node is linked in thread t's robust list: with one mutex, it is what
\* the head's `next` points to.
InRobustList(t) == ROBUST[t] = Node

\* No thread is inside a call.
Quiescent == \A t \in Threads : pc[t] \in {"idle", "dead"}

\* C21: between operations, the mutex node is in a live thread's robust list if
\* and only if the tid bits of the futex word are that thread's tid (so a free
\* word means the node is in no list).
C21_RobustTracksOwnership ==
    Quiescent =>
        \A t \in Threads : pc[t] # "dead" => (InRobustList(t) <=> Owner = t)

\* The step in which live thread t gives the mutex up: the tid bits of the word
\* stop being its tid.
Releases(t) ==
    /\ FUTEX_TID_MASK(futex) = t
    /\ FUTEX_TID_MASK(futex') # t
    /\ pc'[t] # "dead"

\* C22: on every release path, when the futex word stops showing the releasing
\* thread's tid the mutex node has already been unlinked from that thread's
\* robust list.
C22_UnlinkBeforeRelease ==
    [][\A t \in Threads : Releases(t) => ROBUST'[t] # Node]_vars

\* Thread t's robust list is a simple cycle through its head: the head's `next`
\* is the head itself (empty list), or the mutex node whose `next` is the head.
SimpleCycle(t) ==
    \/ ROBUST[t] = HeadCell(t)
    \/ ROBUST[t] = Node /\ nnext = HeadCell(t)

\* C23: after every sequence of robust_add and robust_remove calls of a thread,
\* its robust list is a simple cycle through the head, and the node's `next`
\* does not point to the node itself.
C23_RobustListCycle ==
    \A t \in Threads :
        (pc[t] # "dead" /\ ROBUST[t] # Uninit) => (SimpleCycle(t) /\ nnext # Node)

\* The step in which a call of thread t returns and hands it a guard.
HandsGuard(t) ==
    /\ pc[t] # "idle"
    /\ pc'[t] = "idle"
    /\ op[t] \in {"lock", "try_lock", "pi_lock", "lock_timeout", "wait", "wait_timeout"}
    /\ guards'[t] # guards[t]

\* C24: whenever lock, lock_timeout, try_lock or a condvar wait hands a guard to
\* its caller, the OWNER_DIED bit of the futex word is clear.
C24_GuardSeesCleanWord ==
    [][\A t \in Threads : HandsGuard(t) => ~FUTEX_OWNER_DIED(futex')]_vars

\* The step in which thread c makes its first call of tid().
FirstTid(c) == MY_TID[c] = 0 /\ MY_TID'[c] # 0

\* The step in which thread c ends while the futex word shows its tid.
DiesHolding(c) == pc[c] # "dead" /\ pc'[c] = "dead" /\ FUTEX_TID_MASK(futex) = c

\* C25: in the child of a fork, the first call of tid() returns the child's own
\* tid and leaves a robust-list head registered with the kernel for the child,
\* and a child that dies holding the mutex leaves the word marked OWNER_DIED.
C25_ForkChildRegisters ==
    [][\A c \in Threads :
          forkedFrom[c] # 0 =>
              /\ FirstTid(c) => (MY_TID'[c] = c /\ robust_reg'[c] # Null)
              /\ DiesHolding(c) => FUTEX_OWNER_DIED(futex')]_vars

\* C26: is_locked_by_me() returns true if and only if the tid bits of the futex
\* word are the caller's tid, whatever the WAITERS and OWNER_DIED bits are.
C26_IsLockedByMeMasks ==
    [][\A t \in Threads :
          Returns(t, "is_locked_by_me")
              => (ret'[t] = "true" <=> FUTEX_TID_MASK(futex) = t)]_vars

\* The step in which thread t's wake runs `fetch_add(1, SeqCst) + 1`.
WakeAdds(t) == pc[t] = "cn_add" /\ pc'[t] # "cn_add"

\* C27: for every generation g, 2^32 - 1 included, notify_one / notify_all
\* stores (g + 1) mod 2^32 in the condvar word, does not fail, and goes on to
\* cmp_requeue_pi with exactly the stored value as `expected`.
C27_WrapBenign ==
    [][\A t \in Threads :
          WakeAdds(t) => /\ cv' = wrapping_add1(cv)
                         /\ pc'[t] = "cn_requeue"
                         /\ newgen'[t] = cv']_vars

\* The step in which thread t ends with nobody queued on the mutex.
ExitsUncontended(t) == pc[t] # "dead" /\ pc'[t] = "dead" /\ kwaiters = {}

\* C28: when a thread ends, the head it has registered with the kernel is the
\* head in its thread-local cell, the one robust_add and robust_remove update; so
\* the kernel marks the mutex OWNER_DIED if the thread owned it and had it linked
\* in that list, and leaves the word alone otherwise.
C28_RegisteredHeadIsListHead ==
    [][\A t \in Threads :
          ExitsUncontended(t)
              => /\ robust_reg[t] = HeadCell(t)
                 /\ IF Owner = t /\ InRobustList(t)
                    THEN futex' = DeathWord(futex)
                    ELSE futex' = futex]_vars

\* A step of PiMutex::unlock by thread t (robust_remove and the compare-exchange,
\* or unlock_pi) taken while t does not own the mutex.
ForeignRelease(t) ==
    /\ pc[t] \in {"unlock", "unlock_pi"}
    /\ pc'[t] # pc[t]
    /\ Owner # t

\* C29: a release by a thread that does not own the mutex leaves the futex word,
\* the kernel's wait queue, the node's link and every other thread's robust list
\* unchanged.
C29_ForeignReleaseFrame ==
    [][\A t \in Threads :
          ForeignRelease(t)
              => /\ futex' = futex
                 /\ kwaiters' = kwaiters
                 /\ nnext' = nnext
                 /\ \A u \in Threads \ {t} : ROBUST'[u] = ROBUST[u]]_vars

\* C29 case: a thread that does not own the mutex is inside PiMutex::unlock (drop
\* of a guard, or the end of an attach): its robust_remove and its
\* compare-exchange have run and failed to match, unlock_pi comes next, and
\* another live thread holds the mutex with its Ok guard and its robust-list
\* entry.
C29_Witness ==
    \E t, u \in Threads :
        /\ t # u
        /\ op[t] \in {"drop", "new", "try_new"} /\ pc[t] = "unlock_pi"
        /\ op[u] = "lock" /\ pc[u] = "idle" /\ ret[u] = "Ok" /\ guards[u].ok = 1
        /\ futex = Bare(u)
        /\ ROBUST[u] = Node

====
